---- MODULE Spec2Model ----
(***************************************************************************)
(* Record validation of the fantasy_football data models.                  *)
(*                                                                         *)
(* The four pydantic models (Player, PassingMetrics in its two             *)
(* definitions, RushingMetrics, ReceivingMetrics) are modelled as the      *)
(* construction of one record from one raw input row: the row is the       *)
(* keyword arguments of the constructor call, the outcome is either the    *)
(* validated record (Accepted) or the exception the call ends with         *)
(* (Rejected).                                                             *)
(*                                                                         *)
(* Besides the constructors the module holds the assignment to a field   *)
(* of an instance, create_data_models (the loop that builds the models),   *)
(* create_snap_counts_by_year_df (the snap-count table) and the weekly     *)
(* roster table of create_all_dfs; each run starts one of them on its own  *)
(* input (kind).                                                           *)
(*                                                                         *)
(* Numbers.  A Python float is kept as an integer count of thousandths     *)
(* (3.7 is 3700), so that fractional parts, truncation and the 0.01        *)
(* tolerance are exact.  Strings that are parsed character by character    *)
(* (numeric strings, player ids) are tuples of one-character strings.      *)
(***************************************************************************)
EXTENDS Integers, Sequences, FiniteSets, TLC

VARIABLES
    pc,            \* "raw": the input is assembled; "loop": inside create_data_models;
                   \* "done": the call returned or raised; "assigned": a field was assigned
    kind,          \* which model class the row is given to, or which function is called
    row,           \* the raw input row: field name -> raw value
    current_year,  \* the current season the caller holds as configuration
    outcome,       \* "none", "Accepted" or "Rejected"
    record,        \* field name -> validated value (the model instance), when Accepted
    coerced,       \* field name -> result of the field's mode='before' validator, when called
    checked,       \* field name -> result of that field's validation, for the fields reached
    error,         \* the exception the call ended with: [type, fields]
    frames,        \* the data frames given to a function over tables
    result         \* what the last operation after construction returned or raised

vars == <<pc, kind, row, current_year, outcome, record, coerced, checked, error,
          frames, result>>

----------------------------------------------------------------------------
(* Raw and validated values *)

PyInt(n)   == [t |-> "int",   n |-> n, s |-> <<>>]
PyFloat(m) == [t |-> "float", n |-> m, s |-> <<>>]   \* m thousandths
PyStr(s)   == [t |-> "str",   n |-> 0, s |-> s]
PyNaN      == [t |-> "nan",   n |-> 0, s |-> <<>>]   \* float('nan')
PyNone     == [t |-> "none",  n |-> 0, s |-> <<>>]   \* None
Missing    == [t |-> "missing", n |-> 0, s |-> <<>>] \* the key is absent from the row

\* Results of a conversion or of a validator
Ok(v)       == [st |-> "ok",    val |-> v,      exc |-> "none"]
Raise(exc)  == [st |-> "raise", val |-> PyNone, exc |-> exc]

----------------------------------------------------------------------------
(* Python conversions used by the validators *)

Digits == {"0", "1", "2", "3", "4", "5", "6", "7", "8", "9"}

DigitVal(c) ==
    CASE c = "0" -> 0 [] c = "1" -> 1 [] c = "2" -> 2 [] c = "3" -> 3 [] c = "4" -> 4
      [] c = "5" -> 5 [] c = "6" -> 6 [] c = "7" -> 7 [] c = "8" -> 8 [] c = "9" -> 9

AllDigits(s) == \A i \in 1..Len(s) : s[i] \in Digits

RECURSIVE DigitsVal(_)
DigitsVal(s) ==
    IF s = <<>> THEN 0
    ELSE 10 * DigitsVal(SubSeq(s, 1, Len(s) - 1)) + DigitVal(s[Len(s)])

\* The first three fractional digits of a digit string, as thousandths
FracMilli(s) ==
    DigitsVal(SubSeq(s \o <<"0", "0", "0">>, 1, 3))

\* the value of the digits ip before and fp after the decimal point
DecimalValue(neg, ip, fp) ==
    IF AllDigits(ip) /\ AllDigits(fp) /\ Len(ip) + Len(fp) >= 1
    THEN Ok(PyFloat((IF neg THEN -1 ELSE 1) * (DigitsVal(ip) * 1000 + FracMilli(fp))))
    ELSE Raise("ValueError")

SplitDecimal(neg, body, dots) ==
    IF dots = {} THEN DecimalValue(neg, body, <<>>)
    ELSE IF Cardinality(dots) > 1 THEN Raise("ValueError")
    ELSE DecimalValue(neg, SubSeq(body, 1, (CHOOSE i \in dots : TRUE) - 1),
                           SubSeq(body, (CHOOSE i \in dots : TRUE) + 1, Len(body)))

Unsigned(neg, body) == SplitDecimal(neg, body, {i \in 1..Len(body) : body[i] = "."})

\* float(str): optional sign, digits with at most one decimal point, at least one digit
ParseDecimal(s) ==
    IF Len(s) > 0 /\ s[1] \in {"-", "+"} THEN Unsigned(s[1] = "-", Tail(s))
    ELSE Unsigned(FALSE, s)

\* float(v)
py_float(v) ==
    CASE v.t = "int"   -> Ok(PyFloat(v.n * 1000))
      [] v.t = "float" -> Ok(v)
      [] v.t = "nan"   -> Ok(v)
      [] v.t = "str"   -> ParseDecimal(v.s)
      [] OTHER         -> Raise("TypeError")

\* int(f) of a float: truncation toward zero; int(nan) raises ValueError
py_int(f) ==
    IF f.t = "nan" THEN Raise("ValueError")
    ELSE Ok(PyInt(IF f.n >= 0 THEN f.n \div 1000 ELSE -((-f.n) \div 1000)))

\* int(float(v)), with the exception either call raises
py_int_of(r) == IF r.st = "raise" THEN r ELSE py_int(r.val)

\* try: <r> except (ValueError, TypeError): <handler>
TryExcept(r, handler) ==
    IF r.st = "raise" /\ r.exc \in {"ValueError", "TypeError"} THEN handler ELSE r

\* isinstance(v, int)
isinstance_int(v) == v.t = "int"

\* the fractional part of a float is zero
IsWhole(f) == f.t = "float" /\ f.n % 1000 = 0

----------------------------------------------------------------------------
(* pydantic's built-in (lax mode) validation of an annotated field.  A      *)
(* failed check is a line error of the ValidationError, written            *)
(* Raise("ValueError") as for a validator that raises ValueError.          *)

\* the Field(ge=, le=, gt=) constraints of a numeric field, as the set of
\* numbers that satisfy them
Constrain(r, allowed) ==
    IF r.st = "ok" /\ r.val.n \notin allowed THEN Raise("ValueError") ELSE r

\* a float or numeric string is an int when its fractional part is zero
WholeToInt(r) ==
    IF r.st = "ok" /\ IsWhole(r.val) THEN py_int(r.val) ELSE Raise("ValueError")

\* `int` field: an int, a float without fractional part, or a string that
\* denotes a whole number; then the constraints
CoreInt(v, allowed) ==
    Constrain(CASE v.t = "int"   -> Ok(v)
                [] v.t = "float" -> WholeToInt(Ok(v))
                [] v.t = "str"   -> WholeToInt(ParseDecimal(v.s))
                [] OTHER         -> Raise("ValueError"),
              allowed)

\* a nan fails every ge/le comparison
ConstrainFloat(r, allowed) ==
    IF r.st # "ok" THEN Raise("ValueError")
    ELSE IF r.val.t = "nan" \/ r.val.n \notin allowed THEN Raise("ValueError")
    ELSE r

\* `float` field with constraints: an int, a float (nan included) or a numeric string
CoreFloat(v, allowed) ==
    ConstrainFloat(IF v.t \in {"int", "float", "nan", "str"} THEN py_float(v)
                   ELSE Raise("ValueError"),
                   allowed)

\* `float` field without constraints
CoreFloatAny(v) ==
    TryExcept(IF v.t \in {"int", "float", "nan", "str"} THEN py_float(v)
              ELSE Raise("ValueError"),
              Raise("ValueError"))

\* `str` field with Field(min_length=, max_length=)
CoreStr(v, min_length, max_length) ==
    IF v.t = "str" /\ Len(v.s) >= min_length /\ Len(v.s) <= max_length
    THEN Ok(v) ELSE Raise("ValueError")

\* `str` field without length constraints
CoreStrAny(v) == IF v.t = "str" THEN Ok(v) ELSE Raise("ValueError")

----------------------------------------------------------------------------
(* The validators of the model classes.  Text values (ids, positions,      *)
(* teams) are tuples of characters.                                        *)

\* re.match(r'^\d{2}-\d{7}$', v): two digits, a hyphen, seven digits.  ($ also
\* matches before a final newline; no id here ends with one.)
MatchesHyphenPattern(s) ==
    /\ Len(s) = 10
    /\ AllDigits(SubSeq(s, 1, 2))
    /\ s[3] = "-"
    /\ AllDigits(SubSeq(s, 4, 10))

\* re.match(r'^\d{2}_\d{7}$', v): two digits, an underscore, seven digits
MatchesUnderscorePattern(s) ==
    /\ Len(s) = 10
    /\ AllDigits(SubSeq(s, 1, 2))
    /\ s[3] = "_"
    /\ AllDigits(SubSeq(s, 4, 10))

valid_positions == {<<"Q", "B">>, <<"R", "B">>, <<"W", "R">>, <<"T", "E">>}

valid_teams == {
      <<"A", "R", "I">>, <<"A", "T", "L">>, <<"B", "A", "L">>, <<"B", "U", "F">>,
      <<"C", "A", "R">>, <<"C", "H", "I">>, <<"C", "I", "N">>, <<"C", "L", "E">>,
      <<"D", "A", "L">>, <<"D", "E", "N">>, <<"D", "E", "T">>, <<"G", "B">>,
      <<"H", "O", "U">>, <<"I", "N", "D">>, <<"J", "A", "X">>, <<"K", "C">>,
      <<"L", "A">>, <<"L", "A", "C">>, <<"L", "V">>, <<"M", "I", "A">>,
      <<"M", "I", "N">>, <<"N", "E">>, <<"N", "O">>, <<"N", "Y", "G">>,
      <<"N", "Y", "J">>, <<"P", "H", "I">>, <<"P", "I", "T">>, <<"S", "F">>,
      <<"S", "E", "A">>, <<"T", "B">>, <<"T", "E", "N">>, <<"W", "A", "S">>}

valid_types == {<<"R", "E", "G">>, <<"P", "O", "S", "T">>}

\* ReceivingMetrics.validate_gsis_id / RushingMetrics.validate_gsis_id
validate_gsis_id(v) ==
    IF ~MatchesHyphenPattern(v.s) THEN Raise("ValueError") ELSE Ok(v)

\* validate_season_type of ReceivingMetrics and RushingMetrics
validate_season_type(v) ==
    IF v.s \notin valid_types THEN Raise("ValueError") ELSE Ok(v)

\* validate_team_abbr of ReceivingMetrics and RushingMetrics
validate_team_abbr(v) ==
    IF v.s \notin valid_teams THEN Raise("ValueError") ELSE Ok(v)

\* validate_position of ReceivingMetrics and RushingMetrics
validate_position(v) ==
    IF v.s \notin valid_positions THEN Raise("ValueError") ELSE Ok(v)

----------------------------------------------------------------------------
(* Objects handed to a validator function *)

\* pydantic_core's ValidationInfo: attributes config, context, data,
\* field_name, mode; it is no container (no __contains__, __iter__, __getitem__)
ValidationInfo(field_name, data) ==
    [cls |-> "ValidationInfo", field_name |-> field_name, data |-> data]

\* `key in obj`: defined for a dict, TypeError for an object that is no container
PyIn(key, obj) ==
    IF obj.cls = "dict" THEN Ok(key \in DOMAIN obj.data) ELSE Raise("TypeError")

\* `obj.name`: AttributeError unless the object has that attribute
HasNameAttr(obj) == obj.cls \notin {"ValidationInfo", "dict"}

\* the numeric value of an int or float, in thousandths
Milli(v) == IF v.t = "int" THEN v.n * 1000 ELSE v.n

Abs(x) == IF x < 0 THEN -x ELSE x

----------------------------------------------------------------------------
(* Program constants *)

SeasonMin == 1999      \* Field(ge=1999)
SeasonMax == 2025      \* Field(le=2025)
WeekMax == 18          \* Field(le=18) of RushingMetrics and ReceivingMetrics
IdLength == 10         \* Field(min_length=10, max_length=10)
PercentMax == 100      \* Field(ge=0, le=100)
Tolerance == 10        \* 0.01, in thousandths

----------------------------------------------------------------------------
(* ReceivingMetrics (receiving_metrics.py) *)

\* to_int(cls, v, field), mode='before', on receptions, targets, rec_touchdowns
ReceivingMetrics_to_int(v, field) ==
    IF isinstance_int(v) THEN Ok(v)
    ELSE TryExcept(py_int_of(py_float(v)),
                   \* raise ValueError(f"{field.name} must be convertible ...")
                   IF HasNameAttr(field) THEN Raise("ValueError")
                   ELSE Raise("AttributeError"))

\* validate_catch_percentage without its comparison: the value is returned as given
validate_catch_percentage_unchecked(v, values) == Ok(v)

\* validate_catch_percentage refusing only a catch_percentage above the expected one
validate_catch_percentage_above(v, values) ==
    IF /\ {"receptions", "targets"} \subseteq DOMAIN values.data
       /\ v.t \in {"int", "float"}
       /\ values.data["targets"].n > 0
       /\ Milli(v) * values.data["targets"].n - 100000 * values.data["receptions"].n
              > Tolerance * values.data["targets"].n
    THEN Raise("ValueError")
    ELSE Ok(v)

\* validate_catch_percentage(cls, v, values), mode='before'
validate_catch_percentage(v, values) ==
    IF PyIn("receptions", values).st = "raise" THEN PyIn("receptions", values)
    ELSE IF PyIn("receptions", values).val /\ PyIn("targets", values).val
    THEN \* receptions = values['receptions']; targets = values['targets']
         IF values.data["targets"].n > 0
         THEN \* abs(v - (receptions / targets) * 100) > 0.01, times 1000 * targets
              IF v.t \notin {"int", "float", "nan"} THEN Raise("TypeError")
              ELSE IF v.t # "nan"
                      /\ Abs(Milli(v) * values.data["targets"].n
                               - 100000 * values.data["receptions"].n)
                            > Tolerance * values.data["targets"].n
              THEN Raise("ValueError")
              ELSE Ok(v)
         ELSE Ok(v)
    ELSE Ok(v)

\* the built-in validation of the field, then a mode='after' validator:
\* r is the built-in result (the str itself when it passes), validated the
\* validator's result on it
After(r, validated) == IF r.st = "raise" THEN r ELSE validated

\* the remaining fields of a class, which no validator function touches:
\* PyInt(1) when every one of them satisfies its declaration, PyInt(0) when not
CoreOthers(v) == IF v = PyInt(1) THEN Ok(v) ELSE Raise("ValueError")

ReceivingMetrics_fields ==
    <<"gsis_id", "season", "season_type", "week", "position", "team_abbr",
      "receptions", "targets", "catch_percentage", "rec_touchdowns", "others">>

ReceivingMetrics_decorated ==
    {"gsis_id", "season_type", "team_abbr", "position",
     "receptions", "targets", "rec_touchdowns", "catch_percentage"}

\* the mode='before' validator of field f, applied to the raw value
ReceivingMetrics_before(f, v, info) ==
    CASE f \in {"receptions", "targets", "rec_touchdowns"} -> ReceivingMetrics_to_int(v, info)
      [] f = "catch_percentage" -> validate_catch_percentage(v, info)
      [] OTHER -> Ok(v)

\* season: int = Field(ge=1999, le=2025)
ReceivingMetrics_season(v) == CoreInt(v, SeasonMin..SeasonMax)

\* week: int = Field(ge=0, le=18)
ReceivingMetrics_week(v) == CoreInt(v, 0..WeekMax)

\* receptions, targets, rec_touchdowns: int = Field(ge=0)
ReceivingMetrics_count(v) == CoreInt(v, Nat)

\* the declaration of field f (type and Field constraints) and its mode='after' validator
ReceivingMetrics_field(f, v) ==
    CASE f = "gsis_id" ->
           After(CoreStr(v, IdLength, IdLength), validate_gsis_id(v))
      [] f = "season" ->
           ReceivingMetrics_season(v)
      [] f = "season_type" ->
           After(CoreStr(v, 3, 4), validate_season_type(v))
      [] f = "week" ->
           ReceivingMetrics_week(v)
      [] f = "position" ->
           After(CoreStr(v, 1, 3), validate_position(v))
      [] f = "team_abbr" ->
           After(CoreStr(v, 2, 3), validate_team_abbr(v))
      [] f \in {"receptions", "targets", "rec_touchdowns"} ->
           ReceivingMetrics_count(v)
      [] f = "catch_percentage" ->
           CoreFloat(v, 0..(PercentMax * 1000))
      [] f = "others" -> CoreOthers(v)

----------------------------------------------------------------------------
(* RushingMetrics (rushing_metrics.py) *)

\* to_int(cls, v, field), mode='before', on rush_attempts, rush_yards, rush_touchdowns
RushingMetrics_to_int(v, field) ==
    IF isinstance_int(v) THEN Ok(v)
    ELSE TryExcept(py_int_of(py_float(v)),
                   \* raise ValueError(f"{field.name} must be convertible ...")
                   IF HasNameAttr(field) THEN Raise("ValueError")
                   ELSE Raise("AttributeError"))

\* validate_avg_rush_yards(cls, v, values), mode='before'
validate_avg_rush_yards(v, values) ==
    IF PyIn("rush_yards", values).st = "raise" THEN PyIn("rush_yards", values)
    ELSE IF PyIn("rush_yards", values).val /\ PyIn("rush_attempts", values).val
    THEN \* rush_yards = values['rush_yards']; rush_attempts = values['rush_attempts']
         IF values.data["rush_attempts"].n > 0
         THEN \* abs(v - rush_yards / rush_attempts) > 0.01, times 1000 * rush_attempts
              IF v.t \notin {"int", "float", "nan"} THEN Raise("TypeError")
              ELSE IF v.t # "nan"
                      /\ Abs(Milli(v) * values.data["rush_attempts"].n
                               - 1000 * values.data["rush_yards"].n)
                            > Tolerance * values.data["rush_attempts"].n
              THEN Raise("ValueError")
              ELSE Ok(v)
         ELSE Ok(v)
    ELSE Ok(v)

RushingMetrics_fields ==
    <<"gsis_id", "season", "season_type", "week", "position", "team_abbr",
      "rush_attempts", "rush_yards", "avg_rush_yards", "rush_touchdowns", "others">>

RushingMetrics_decorated ==
    {"gsis_id", "season_type", "team_abbr", "position",
     "rush_attempts", "rush_yards", "rush_touchdowns", "avg_rush_yards"}

RushingMetrics_before(f, v, info) ==
    CASE f \in {"rush_attempts", "rush_yards", "rush_touchdowns"} -> RushingMetrics_to_int(v, info)
      [] f = "avg_rush_yards" -> validate_avg_rush_yards(v, info)
      [] OTHER -> Ok(v)

\* season: int = Field(ge=1999, le=2025)
RushingMetrics_season(v) == CoreInt(v, SeasonMin..SeasonMax)

\* week: int = Field(ge=0, le=18)
RushingMetrics_week(v) == CoreInt(v, 0..WeekMax)

\* rush_attempts, rush_touchdowns: int = Field(ge=0)
RushingMetrics_count(v) == CoreInt(v, Nat)

RushingMetrics_field(f, v) ==
    CASE f = "gsis_id" ->
           After(CoreStr(v, IdLength, IdLength), validate_gsis_id(v))
      [] f = "season" ->
           RushingMetrics_season(v)
      [] f = "season_type" ->
           After(CoreStr(v, 3, 4), validate_season_type(v))
      [] f = "week" ->
           RushingMetrics_week(v)
      [] f = "position" ->
           After(CoreStr(v, 1, 3), validate_position(v))
      [] f = "team_abbr" ->
           After(CoreStr(v, 2, 3), validate_team_abbr(v))
      [] f \in {"rush_attempts", "rush_touchdowns"} ->
           RushingMetrics_count(v)
      [] f = "rush_yards" ->
           CoreInt(v, Int)
      [] f = "avg_rush_yards" ->
           CoreFloatAny(v)
      [] f = "others" -> CoreOthers(v)

----------------------------------------------------------------------------
(* PassingMetrics of passing_metrics.py.  The functions decorated with      *)
(* @field_validator below the class body are module-level functions: they  *)
(* are not attributes of the class and pydantic never calls them.          *)

\* passing_metrics.validate_player_id (module level)
PassingMetrics_validate_player_id(v) ==
    IF ~MatchesHyphenPattern(v.s) THEN Raise("ValueError") ELSE Ok(v)

\* passing_metrics.validate_team_abbr (module level)
PassingMetrics_validate_team_abbr(v) ==
    IF v.s \notin valid_teams THEN Raise("ValueError") ELSE Ok(v)

\* passing_metrics.validate_position (module level)
PassingMetrics_validate_position(v) ==
    IF v.s \notin valid_positions THEN Raise("ValueError") ELSE Ok(v)

\* passing_metrics.to_int (module level); the handler formats `field` itself
PassingMetrics_to_int(v, field) ==
    IF isinstance_int(v) THEN Ok(v)
    ELSE TryExcept(py_int_of(py_float(v)),
                   \* raise ValueError(f"{field} must be convertible ...")
                   Raise("ValueError"))

PassingMetrics_fields ==
    <<"gsis_id", "season", "season_type", "week",
      "attempts", "pass_touchdowns", "interceptions", "completions",
      "sacks", "sack_fumbles", "sack_fumbles_lost", "others">>

\* no validator is defined inside the class body
PassingMetrics_decorated == {}

PassingMetrics_before(f, v, info) == Ok(v)

\* season: int = Field(ge=1999, le=2025)
PassingMetrics_season(v) == CoreInt(v, SeasonMin..SeasonMax)

\* week: int = Field(ge=0)
PassingMetrics_week(v) == CoreInt(v, Nat)

\* a count field declared without ge=0
PassingMetrics_count_unbounded(v) == CoreInt(v, Int)

\* attempts, ..., sack_fumbles_lost: int = Field(ge=0)
PassingMetrics_count(v) == CoreInt(v, Nat)

PassingMetrics_field(f, v) ==
    CASE f = "gsis_id" ->
           CoreStr(v, IdLength, IdLength)
      [] f = "season" ->
           PassingMetrics_season(v)
      [] f = "season_type" ->
           CoreStr(v, 3, 4)
      [] f = "week" ->
           PassingMetrics_week(v)
      [] f \in {"attempts", "pass_touchdowns", "interceptions", "completions",
                "sacks", "sack_fumbles", "sack_fumbles_lost"} ->
           PassingMetrics_count(v)
      [] f = "others" -> CoreOthers(v)

----------------------------------------------------------------------------
(* PassingMetrics of passer_metrics.py, called PasserMetrics here.  Its     *)
(* validator functions are module-level too.                               *)

\* passer_metrics.validate_player_id (module level)
PasserMetrics_validate_player_id(v) ==
    IF v.t # "str" THEN Raise("TypeError")
    ELSE IF ~MatchesUnderscorePattern(v.s) THEN Raise("ValueError") ELSE Ok(v)

\* passer_metrics.validate_position (module level)
PasserMetrics_validate_position(v) ==
    IF v # PyStr(<<"Q", "B">>) THEN Raise("ValueError") ELSE Ok(v)

PasserMetrics_fields ==
    <<"player_id", "season", "season_type", "week", "position", "team",
      "attempts", "pass_touchdowns", "interceptions", "completions", "others">>

PasserMetrics_decorated == {}

PasserMetrics_before(f, v, info) == Ok(v)

\* season: int = Field(ge=1999, le=2025)
PasserMetrics_season(v) == CoreInt(v, SeasonMin..SeasonMax)

\* week: int = Field(gt=0)
PasserMetrics_week(v) == CoreInt(v, Nat \ {0})

\* attempts, pass_touchdowns, interceptions, completions: int = Field(ge=0)
PasserMetrics_count(v) == CoreInt(v, Nat)

PasserMetrics_field(f, v) ==
    CASE f = "player_id" ->
           CoreStr(v, IdLength, IdLength)
      [] f = "season" ->
           PasserMetrics_season(v)
      [] f = "season_type" ->
           CoreStr(v, 3, 3)
      [] f = "week" ->
           PasserMetrics_week(v)
      [] f = "position" ->
           CoreStrAny(v)
      [] f = "team" ->
           CoreStr(v, 2, 3)
      [] f \in {"attempts", "pass_touchdowns", "interceptions", "completions"} ->
           PasserMetrics_count(v)
      [] f = "others" -> CoreOthers(v)

----------------------------------------------------------------------------
(* Player (player.py) *)

\* Player.validate_player_id, decorated @field_validator('player_id')
Player_validate_player_id(v) ==
    IF ~MatchesHyphenPattern(v.s) THEN Raise("ValueError") ELSE Ok(v)

\* Player.validate_position
Player_validate_position(v) ==
    IF v.s \notin valid_positions THEN Raise("ValueError") ELSE Ok(v)

\* Player.to_int(cls, v, field), mode='before', on offense_snaps
Player_to_int(v, field) ==
    IF isinstance_int(v) THEN Ok(v)
    ELSE TryExcept(py_int_of(py_float(v)),
                   \* raise ValueError(f"{field} must be convertible ...")
                   Raise("ValueError"))

Player_fields ==
    <<"gsis_id", "team", "position", "offense_snaps", "others">>

\* the field names given to @field_validator inside the class body
Player_decorated == {"player_id", "position", "offense_snaps"}

Player_before(f, v, info) ==
    CASE f = "offense_snaps" -> Player_to_int(v, info)
      [] OTHER -> Ok(v)

\* offense_snaps: int = Field(ge=0)
Player_count(v) == CoreInt(v, Nat)

Player_field(f, v) ==
    CASE f = "gsis_id" ->
           CoreStr(v, IdLength, IdLength)
      [] f = "team" ->
           CoreStr(v, 2, 3)
      [] f = "position" ->
           After(CoreStr(v, 1, 3), Player_validate_position(v))
      [] f = "offense_snaps" ->
           Player_count(v)
      [] f = "others" -> CoreOthers(v)

----------------------------------------------------------------------------
(* pydantic's construction of a model instance *)

Kinds == {"Player", "PassingMetrics", "PasserMetrics", "RushingMetrics", "ReceivingMetrics"}

ClassFields(K) ==
    CASE K = "Player"           -> Player_fields
      [] K = "PassingMetrics"   -> PassingMetrics_fields
      [] K = "PasserMetrics"    -> PasserMetrics_fields
      [] K = "RushingMetrics"   -> RushingMetrics_fields
      [] K = "ReceivingMetrics" -> ReceivingMetrics_fields

ClassDecorated(K) ==
    CASE K = "Player"           -> Player_decorated
      [] K = "PassingMetrics"   -> PassingMetrics_decorated
      [] K = "PasserMetrics"    -> PasserMetrics_decorated
      [] K = "RushingMetrics"   -> RushingMetrics_decorated
      [] K = "ReceivingMetrics" -> ReceivingMetrics_decorated

ClassBefore(K, f, v, info) ==
    CASE K = "Player"           -> Player_before(f, v, info)
      [] K = "PassingMetrics"   -> PassingMetrics_before(f, v, info)
      [] K = "PasserMetrics"    -> PasserMetrics_before(f, v, info)
      [] K = "RushingMetrics"   -> RushingMetrics_before(f, v, info)
      [] K = "ReceivingMetrics" -> ReceivingMetrics_before(f, v, info)

ClassField(K, f, v) ==
    CASE K = "Player"           -> Player_field(f, v)
      [] K = "PassingMetrics"   -> PassingMetrics_field(f, v)
      [] K = "PasserMetrics"    -> PasserMetrics_field(f, v)
      [] K = "RushingMetrics"   -> RushingMetrics_field(f, v)
      [] K = "ReceivingMetrics" -> ReceivingMetrics_field(f, v)

Range(s) == {s[i] : i \in DOMAIN s}

\* The class statement succeeds only when every @field_validator of the class
\* body names fields of the class (check_fields); else it raises PydanticUserError
\* and the class does not exist.
ClassDefined(K) == ClassDecorated(K) \subseteq Range(ClassFields(K))

\* ValueError and AssertionError raised by a validator become a line error of
\* the ValidationError; any other exception ends the construction at once.
IsLineError(r) == r.st = "raise" /\ r.exc \in {"ValueError", "AssertionError"}
IsAbort(r)     == r.st = "raise" /\ ~IsLineError(r)

Empty == [x \in {} |-> PyNone]

Start == [coerced |-> Empty, checked |-> Empty, data |-> Empty, abort |-> "none"]

\* the state of the construction after field f: b is the result of its
\* mode='before' validator, r the result of the whole field
Accumulate(f, v, b, r, acc) ==
    [coerced |-> IF v = Missing THEN acc.coerced ELSE acc.coerced @@ (f :> b),
     checked |-> acc.checked @@ (f :> r),
     data    |-> IF r.st = "ok" THEN acc.data @@ (f :> r.val) ELSE acc.data,
     abort   |-> IF IsAbort(r) THEN r.exc ELSE "none"]

\* the field's declaration and mode='after' validator, unless b raised
AfterBefore(K, f, v, b, acc) ==
    Accumulate(f, v, b, IF b.st = "raise" THEN b ELSE ClassField(K, f, b.val), acc)

\* One field.  A field absent from the input is a line error and its
\* validators are not called; info.data holds the fields validated so far.
ValidateField(K, f, v, acc) ==
    AfterBefore(K, f, v,
                IF v = Missing THEN Raise("ValueError")
                ELSE ClassBefore(K, f, v, ValidationInfo(f, acc.data)),
                acc)

\* The fields are validated in declaration order, up to the first exception
\* that is no line error.
RECURSIVE ValidateFields(_, _, _, _)
ValidateFields(K, input, i, acc) ==
    IF i > Len(ClassFields(K)) \/ acc.abort # "none" THEN acc
    ELSE ValidateFields(K, input, i + 1,
                        ValidateField(K, ClassFields(K)[i], input[ClassFields(K)[i]], acc))

Failed(chk) == {f \in DOMAIN chk : chk[f].st = "raise"}

Conclude(res) ==
    [outcome |-> IF res.abort = "none" /\ Failed(res.checked) = {}
                 THEN "Accepted" ELSE "Rejected",
     record  |-> IF res.abort = "none" /\ Failed(res.checked) = {}
                 THEN res.data ELSE Empty,
     coerced |-> res.coerced,
     checked |-> res.checked,
     error   |-> IF res.abort # "none" THEN [type |-> res.abort, fields |-> {}]
                 ELSE IF Failed(res.checked) # {}
                 THEN [type |-> "ValidationError", fields |-> Failed(res.checked)]
                 ELSE [type |-> "none", fields |-> {}]]

\* K(**input): the instance, or the exception the call ends with.  Keys of the
\* input that are no fields of the class are ignored (extra='ignore').
model_validate(K, input) ==
    IF ~ClassDefined(K)
    THEN [outcome |-> "Rejected", record |-> Empty, coerced |-> Empty, checked |-> Empty,
          error |-> [type |-> "PydanticUserError", fields |-> {}]]
    ELSE Conclude(ValidateFields(K, input, 1, Start))

----------------------------------------------------------------------------
(* Input rows *)

MaxCount == 2    \* the largest integer count offered to a count field

ID_OK         == PyStr(<<"0", "0", "-", "0", "0", "3", "4", "4", "0", "7">>)
ID_UNDERSCORE == PyStr(<<"0", "0", "_", "0", "0", "3", "4", "4", "0", "7">>)
ID_LETTERS    == PyStr(<<"A", "B", "-", "C", "D", "E", "F", "G", "H", "I">>)
ID_SHORT      == PyStr(<<"0", "0", "-", "0", "0", "3", "4", "4", "0">>)

QB == PyStr(<<"Q", "B">>)
WR == PyStr(<<"W", "R">>)
ATL == PyStr(<<"A", "T", "L">>)
GB == PyStr(<<"G", "B">>)
REG == PyStr(<<"R", "E", "G">>)

Ids == {ID_OK, ID_UNDERSCORE, ID_LETTERS, ID_SHORT}

Seasons == {PyInt(SeasonMin - 1), PyInt(SeasonMin), PyInt(SeasonMax), PyInt(SeasonMax + 1)}

Weeks == {PyInt(-1), PyInt(0), PyInt(1), PyInt(WeekMax), PyInt(WeekMax + 1)}

SeasonTypes == {REG, PyStr(<<"P", "O", "S", "T">>), PyStr(<<"P", "R", "E">>)}

Positions == {QB, WR, PyStr(<<"K">>), PyStr(<<"D", "E", "F">>), PyNone, Missing}

Teams == {ATL, GB, PyStr(<<"X", "X">>), PyStr(<<"X", "Y", "Z">>)}

\* ints, floats (-0.5, 2.0, 3.7), strings ("2", "3.7", "abc"), nan and None
Counts ==
    {PyInt(n) : n \in -1..MaxCount}
    \cup {PyFloat(-500), PyFloat(2000), PyFloat(3700)}
    \cup {PyStr(<<"2">>), PyStr(<<"3", ".", "7">>), PyStr(<<"a", "b", "c">>)}
    \cup {PyNaN, PyNone}

\* 0.0, 50.0, 50.005, 50.01, 50.02, 100.0, 100.5, -1.0, "50.0", nan, None, absent
Percentages ==
    {PyFloat(0), PyFloat(50000), PyFloat(50005), PyFloat(50010), PyFloat(50020),
     PyFloat(100000), PyFloat(100500), PyFloat(-1000),
     PyStr(<<"5", "0", ".", "0">>), PyNaN, PyNone, Missing}

\* 0.0, 5.0, 5.005, 5.01, 5.02, 5.5, -2.0, "5.0", nan, None, absent
Averages ==
    {PyFloat(0), PyFloat(5000), PyFloat(5005), PyFloat(5010), PyFloat(5020),
     PyFloat(5500), PyFloat(-2000),
     PyStr(<<"5", ".", "0">>), PyNaN, PyNone, Missing}

Others == {PyInt(1), PyInt(0)}

\* the values offered to field f
Candidates(f) ==
    CASE f \in {"gsis_id", "player_id"}   -> Ids
      [] f = "season"                     -> Seasons
      [] f = "season_type"                -> SeasonTypes
      [] f = "week"                       -> Weeks
      [] f = "position"                   -> Positions
      [] f \in {"team", "team_abbr"}      -> Teams
      [] f = "catch_percentage"           -> Percentages
      [] f = "avg_rush_yards"             -> Averages
      [] f = "rush_yards"                 -> Counts \cup {PyInt(100), PyInt(-3)}
      [] f = "rush_attempts"              -> Counts \cup {PyInt(20)}
      [] f = "others"                     -> Others
      [] OTHER                            -> Counts

\* a row every check of its class accepts as far as the field declarations go
BaseRow(K) ==
    CASE K = "ReceivingMetrics" ->
           [gsis_id |-> ID_OK, season |-> PyInt(SeasonMax), season_type |-> REG,
            week |-> PyInt(1), position |-> WR, team_abbr |-> ATL,
            receptions |-> PyInt(1), targets |-> PyInt(2),
            catch_percentage |-> PyFloat(50000), rec_touchdowns |-> PyInt(0),
            others |-> PyInt(1)]
      [] K = "RushingMetrics" ->
           [gsis_id |-> ID_OK, season |-> PyInt(SeasonMax), season_type |-> REG,
            week |-> PyInt(1), position |-> QB, team_abbr |-> ATL,
            rush_attempts |-> PyInt(20), rush_yards |-> PyInt(100),
            avg_rush_yards |-> PyFloat(5000), rush_touchdowns |-> PyInt(1),
            others |-> PyInt(1)]
      [] K = "PassingMetrics" ->
           [gsis_id |-> ID_OK, season |-> PyInt(SeasonMax), season_type |-> REG,
            week |-> PyInt(1), position |-> QB, team_abbr |-> ATL,
            attempts |-> PyInt(2), pass_touchdowns |-> PyInt(1),
            interceptions |-> PyInt(0), completions |-> PyInt(1),
            sacks |-> PyInt(0), sack_fumbles |-> PyInt(0), sack_fumbles_lost |-> PyInt(0),
            others |-> PyInt(1)]
      [] K = "PasserMetrics" ->
           [player_id |-> ID_OK, season |-> PyInt(SeasonMax), season_type |-> REG,
            week |-> PyInt(1), position |-> QB, team |-> ATL,
            attempts |-> PyInt(2), pass_touchdowns |-> PyInt(1),
            interceptions |-> PyInt(0), completions |-> PyInt(1),
            others |-> PyInt(1)]
      [] K = "Player" ->
           [gsis_id |-> ID_OK, team |-> ATL, position |-> QB,
            offense_snaps |-> PyInt(2), others |-> PyInt(1)]

\* the rows that differ from r in at most one field
Deviations(r) ==
    UNION { {[r EXCEPT ![f] = v] : v \in Candidates(f)} : f \in DOMAIN r }

\* the rows that differ from the base row in at most two fields
Rows(K) == UNION { Deviations(r) : r \in Deviations(BaseRow(K)) }

----------------------------------------------------------------------------
(* The state machine: one row is given to one constructor *)

NoFrames == <<>>

\* every sequence over S of length at most n
RECURSIVE SeqsUpTo(_, _)
SeqsUpTo(S, n) ==
    IF n = 0 THEN {<<>>}
    ELSE SeqsUpTo(S, n - 1)
         \cup {Append(s, x) : s \in {q \in SeqsUpTo(S, n - 1) : Len(q) = n - 1}, x \in S}

MaxRows == 2    \* the largest number of rows of an input table

PlayerIds == {"p1", "p2"}

WeekNumbers == {1, 2}

\* the tables create_data_models works on: the player ids and two weekly tables
PipelineFrames ==
    [player_id_df     : SeqsUpTo([gsis_id : PlayerIds], MaxRows),
     weekly_roster_df : SeqsUpTo([player_id : PlayerIds, week : WeekNumbers], MaxRows),
     weekly_stats_df  : SeqsUpTo([player_id : PlayerIds, week : WeekNumbers], MaxRows)]

NoResult == [op |-> "none"]

----------------------------------------------------------------------------
(* create_snap_counts_by_year_df: snap counts per player and season.  A    *)
(* table is [columns, rows]: the set of its columns and, per player name,  *)
(* the cell of each snap column.  A column f"{year}_snaps" is kept as its  *)
(* year with its suffix.  The quantile is exact, in hundredths of a snap.  *)

MaxSnapRows == 3    \* the largest number of weekly rows of the snap-count input

SnapNames == {"a", "b", "c"}

SnapSeasons == {2023, 2024, 2025}

SnapValues == {1, 5}

SnapFrames ==
    SeqsUpTo([name : SnapNames, season : SnapSeasons, offense_snaps : SnapValues],
             MaxSnapRows)

NameCol == [label |-> "name", year |-> 0]

\* f"{int(year)}_snaps"
SnapCol(year) == [label |-> "_snaps", year |-> year]

\* col.endswith('_snaps')
endswith_snaps(col) == col.label = "_snaps"

\* the column dropna is given: '2024_snaps'
QualifyYear == 2024

\* the group's first row stands for the group
GroupSum_first(df, name, season) ==
    df[CHOOSE i \in DOMAIN df :
          /\ df[i].name = name /\ df[i].season = season
          /\ \A j \in 1..(i - 1) : df[j].name # name \/ df[j].season # season].offense_snaps

\* the sum of offense_snaps over the rows of one (name, season) group
RECURSIVE GroupSum(_, _, _)
GroupSum(df, name, season) ==
    IF df = <<>> THEN 0
    ELSE (IF Head(df).name = name /\ Head(df).season = season
          THEN Head(df).offense_snaps ELSE 0)
         + GroupSum(Tail(df), name, season)

\* df.groupby(['name', 'season'])['offense_snaps'].sum(): one value per group present
groupby_sum(df) ==
    [k \in {<<df[i].name, df[i].season>> : i \in DOMAIN df} |-> GroupSum(df, k[1], k[2])]

\* .pivot(index='name', columns='season', values='offense_snaps').reset_index() and
\* the renaming of the columns: a row per name, a column per season, NaN
\* where the group is absent
pivot(g) ==
    [columns |-> {NameCol} \cup {SnapCol(k[2]) : k \in DOMAIN g},
     rows    |-> [name \in {k[1] : k \in DOMAIN g} |->
                    [col \in {SnapCol(k[2]) : k \in DOMAIN g} |->
                        IF <<name, col.year>> \in DOMAIN g
                        THEN PyInt(g[<<name, col.year>>]) ELSE PyNaN]]]

\* df.dropna(subset=[col]), for a column of the table
dropna(tbl, col) ==
    [columns |-> tbl.columns,
     rows    |-> [name \in {n \in DOMAIN tbl.rows : tbl.rows[n][col] # PyNaN} |->
                    tbl.rows[name]]]

\* df.fillna(0)
fillna(tbl) ==
    [columns |-> tbl.columns,
     rows    |-> [name \in DOMAIN tbl.rows |->
                    [col \in DOMAIN tbl.rows[name] |->
                        IF tbl.rows[name][col] = PyNaN THEN PyInt(0)
                        ELSE tbl.rows[name][col]]]]

\* [col for col in df.columns if col.endswith('_snaps')]
snap_cols(tbl) == {col \in tbl.columns : endswith_snaps(col)}

\* snap_cols.sort(key=int(year)); snap_cols[-1]
most_recent_year_col(cols) == CHOOSE c \in cols : \A d \in cols : d.year <= c.year

\* the values of a column in ascending order
RECURSIVE SortedValues(_, _)
RECURSIVE SortedMax(_, _, _)
SortedValues(tbl, col) ==
    IF DOMAIN tbl.rows = {} THEN <<>>
    ELSE SortedMax(tbl, col,
                   CHOOSE n \in DOMAIN tbl.rows :
                       \A m \in DOMAIN tbl.rows : tbl.rows[m][col].n <= tbl.rows[n][col].n)

\* the column's values in ascending order, name n holding the largest
SortedMax(tbl, col, n) ==
    Append(SortedValues([columns |-> tbl.columns,
                         rows |-> [m \in (DOMAIN tbl.rows) \ {n} |-> tbl.rows[m]]], col),
           tbl.rows[n][col].n)

\* linear interpolation between the two values around position (n - 1) * 0.66,
\* in hundredths; the quantile of an empty column is NaN
Interpolate(xs, lo, frac) ==
    IF frac = 0 THEN 100 * xs[lo + 1]
    ELSE 100 * xs[lo + 1] + frac * (xs[lo + 2] - xs[lo + 1])

\* Series.quantile(0.66)
quantile_66(xs) ==
    IF xs = <<>> THEN [nan |-> TRUE, t100 |-> 0]
    ELSE [nan |-> FALSE,
          t100 |-> Interpolate(xs, ((Len(xs) - 1) * 66) \div 100, ((Len(xs) - 1) * 66) % 100)]

\* every year has to qualify
_has_qualifying_year_all(r, percentile_threshold, cols) ==
    \A col \in cols :
        ~percentile_threshold.nan /\ 100 * r[col].n > percentile_threshold.t100

\* a year at the threshold qualifies too
_has_qualifying_year_at_least(r, percentile_threshold, cols) ==
    \E col \in cols :
        ~percentile_threshold.nan /\ 100 * r[col].n >= percentile_threshold.t100

\* any(row[col] > percentile_threshold for col in snap_cols); a comparison
\* with NaN is False
_has_qualifying_year(r, percentile_threshold, cols) ==
    \E col \in cols :
        ~percentile_threshold.nan /\ 100 * r[col].n > percentile_threshold.t100

NoTable == [columns |-> {}, rows |-> <<>>]

\* the function ends with an exception
SnapRaise(pv, exc) ==
    [op |-> "create_snap_counts_by_year_df", exc |-> exc, pivot |-> pv,
     remaining |-> NoTable, threshold |-> [nan |-> TRUE, t100 |-> 0],
     qualifying_players |-> {}]

\* lines 83-94: the rows with at least one qualifying year
SnapFilter(pv, rem, th) ==
    [op |-> "create_snap_counts_by_year_df", exc |-> "none", pivot |-> pv,
     remaining |-> rem, threshold |-> th,
     qualifying_players |->
         {name \in DOMAIN rem.rows : _has_qualifying_year(rem.rows[name], th, snap_cols(rem))}]

\* lines 64-81: the snap columns, the check that there is one, the quantile of
\* the most recent one
SnapThreshold(pv, rem) ==
    IF snap_cols(rem) = {}
    THEN SnapRaise(pv, "ValueError")
    ELSE SnapFilter(pv, rem,
                    quantile_66(SortedValues(rem, most_recent_year_col(snap_cols(rem)))))

\* lines 58-62: dropna(subset=['2024_snaps']) raises KeyError when the table
\* has no such column
SnapDrop(pv) ==
    IF SnapCol(QualifyYear) \notin pv.columns
    THEN SnapRaise(pv, "KeyError")
    ELSE SnapThreshold(pv, fillna(dropna(pv, SnapCol(QualifyYear))))

\* create_snap_counts_by_year_df(df)
create_snap_counts_by_year_df(df) == SnapDrop(pivot(groupby_sum(df)))

\* df = df.groupby([...])[...].sum().reset_index(), lines 38-46: the result is a
\* new table and the local df is bound to it; ref is [local, caller, shared],
\* the table the local names, the caller's table, and whether they are one object
groupby_rebind(ref) ==
    [local |-> groupby_sum(ref.local), caller |-> ref.caller, shared |-> FALSE]

\* the caller's df after the call: the parameter names the caller's table up to
\* line 38, and every later statement works on a table made in the function
df_after_call(df) == groupby_rebind([local |-> df, caller |-> df, shared |-> TRUE]).caller

----------------------------------------------------------------------------
(* create_all_dfs: the weekly roster table, lines 35-54 *)

RosterPositions == {"QB", "WR", "K"}

RosterStatuses == {"ACT", "RES"}

\* the rows nfl.import_weekly_rosters returns: the columns the function
\* keeps and one it does not
RosterRows ==
    [player_id : PlayerIds, position : RosterPositions, season : {SeasonMax - 1},
     week : WeekNumbers, status : RosterStatuses, years_exp : {3}, team : {"ATL"}]

RosterFrames == SeqsUpTo(RosterRows, MaxRows)

\* every row counts as active
IsActive_any(r) == TRUE

\* weekly_roster_df['status'] == 'ACT'
IsActive(r) == r.status = "ACT"

\* weekly_roster_df['position'].isin(['QB', 'RB', 'WR', 'TE'])
IsSkillPosition(r) == r.position \in {"QB", "RB", "WR", "TE"}

\* the columns kept, lines 45-54
roster_columns == {"player_id", "position", "season", "week", "status", "years_exp"}

\* df[[columns]] for one row
KeepColumns(r) == [c \in roster_columns |-> r[c]]

\* the boolean-mask selections keep the rows in their order
create_all_dfs(weekly_rosters) ==
    [op |-> "create_all_dfs", exc |-> "none",
     weekly_roster_df |->
         [i \in DOMAIN SelectSeq(SelectSeq(weekly_rosters, IsActive), IsSkillPosition) |->
             KeepColumns(SelectSeq(SelectSeq(weekly_rosters, IsActive), IsSkillPosition)[i])]]

----------------------------------------------------------------------------
(* create_passing_dfs, create_rushing_dfs, create_receiving_dfs: the stages *)
(* that derive a position's tables from an AllDataFrames.  A table is       *)
(* [columns, rows]: the set of its columns and the sequence of its rows.    *)
(* Of the columns a stage keeps, the player id and one statistic stand for  *)
(* the list.  A local variable bound to a table is [local, caller, shared]: *)
(* the table it refers to, the caller's table, and whether the two are the  *)
(* same object.                                                             *)

MaxStageRows == 2    \* the largest number of rows over the source tables of a stage

StagePositions == {"QB", "WR"}

SourceTables ==
    {"player_id_df", "snap_count_df", "weekly_roster_df", "weekly_stats_df",
     "weekly_data", "passing", "rushing", "receiving"}

\* a row of one of the source tables
TaggedRows == [table : SourceTables, id : PlayerIds, position : StagePositions]

IdColumn(t) ==
    CASE t = "player_id_df"                       -> "gsis_id"
      [] t = "snap_count_df"                      -> "pfr_player_id"
      [] t \in {"passing", "rushing", "receiving"} -> "player_gsis_id"
      [] OTHER                                    -> "player_id"

PositionColumn(t) ==
    IF t \in {"passing", "rushing", "receiving"} THEN "player_position" ELSE "position"

StatColumn(t) ==
    CASE t = "passing"     -> "attempts"
      [] t = "rushing"     -> "rush_attempts"
      [] t = "receiving"   -> "receptions"
      [] t = "weekly_data" -> "sacks"
      [] OTHER             -> "season"

SourceColumns(t) == {IdColumn(t), PositionColumn(t), StatColumn(t)}

SourceRow(x) ==
    [c \in SourceColumns(x.table) |->
        CASE c = IdColumn(x.table)       -> x.id
          [] c = PositionColumn(x.table) -> x.position
          [] OTHER                       -> "1"]

\* the rows of table t among the tagged rows s, with the table's columns
RECURSIVE TableRows(_, _)
TableRows(s, t) ==
    IF s = <<>> THEN <<>>
    ELSE (IF Head(s).table = t THEN <<SourceRow(Head(s))>> ELSE <<>>) \o TableRows(Tail(s), t)

TableOf(s, t) == [columns |-> SourceColumns(t), rows |-> TableRows(s, t)]

\* the AllDataFrames argument and what nfl_data_py returns: the weekly data and
\* the next-gen feed of each stat_type
StageFramesOf(s) ==
    [all_data_frames |->
        [t \in {"player_id_df", "snap_count_df", "weekly_roster_df", "weekly_stats_df"} |->
            TableOf(s, t)],
     weekly_data |-> TableOf(s, "weekly_data"),
     ngs |-> [t \in {"passing", "rushing", "receiving"} |-> TableOf(s, t)]]

StageFrames == {StageFramesOf(s) : s \in SeqsUpTo(TaggedRows, MaxStageRows)}

\* nfl.import_ngs_data(stat_type=stat_type, ...)
import_ngs_data(fr, stat_type) == fr.ngs[stat_type]

\* nfl.import_weekly_data(...)
import_weekly_data(fr) == fr.weekly_data

\* x = all_data_frames.x: the local names the caller's table
Bind(df) == [local |-> df, caller |-> df, shared |-> TRUE]

\* x = nfl.import_...(): the local names a table no caller holds
Fresh(df) == [local |-> df, caller |-> df, shared |-> FALSE]

\* the rows of df with df['position'] == position, in their order
RECURSIVE RowsAt(_, _)
RowsAt(rows, position) ==
    IF rows = <<>> THEN <<>>
    ELSE (IF Head(rows).position = position THEN <<Head(rows)>> ELSE <<>>)
         \o RowsAt(Tail(rows), position)

\* the selection is made in the table the local names
where_position_inplace(ref, position) ==
    [local  |-> [columns |-> ref.local.columns, rows |-> RowsAt(ref.local.rows, position)],
     caller |-> IF ref.shared
                THEN [columns |-> ref.local.columns, rows |-> RowsAt(ref.local.rows, position)]
                ELSE ref.caller,
     shared |-> ref.shared]

\* x = x[x['position'] == position]: the selection is a new table, and the
\* local is bound to it
where_position(ref, position) ==
    [local  |-> [columns |-> ref.local.columns, rows |-> RowsAt(ref.local.rows, position)],
     caller |-> ref.caller,
     shared |-> FALSE]

\* df[[columns]] raises KeyError when df lacks one of the columns
HasColumns(df, columns) == columns \subseteq df.columns

\* df[[columns]]: the columns of every row, in a new table
select_columns(df, columns) ==
    [columns |-> columns,
     rows    |-> [i \in DOMAIN df.rows |-> [c \in columns |-> df.rows[i][c]]]]

\* the columns kept of the weekly data, lines 146-156
sacks_columns == {"player_id", "sacks"}

\* the columns kept of the passing feed, lines 165-189
ngs_passing_columns == {"player_gsis_id", "attempts"}

\* the columns kept by create_rushing_dfs, lines 218-235
ngs_rushing_columns == {"player_gsis_id", "rush_attempts"}

\* the columns kept by create_receiving_dfs, lines 263-281
ngs_receiving_columns == {"player_gsis_id", "receptions"}

\* the stage returns its table set; arg holds the caller's tables after the call
StageReturn(op, tables, arg) ==
    [op |-> op, exc |-> "none", tables |-> tables, all_data_frames |-> arg]

\* the stage raises; arg holds the caller's tables after the call
StageRaise(op, exc, arg) ==
    [op |-> op, exc |-> exc, tables |-> <<>>, all_data_frames |-> arg]

\* the caller's tables after the four selections of lines 120-134
AfterSelections(a, position) ==
    [t \in DOMAIN a |-> where_position(Bind(a[t]), position).caller]

\* create_passing_dfs(all_data_frames)
create_passing_dfs(fr) ==
    StageReturn("create_passing_dfs",
        [player_id_df     |-> where_position(Bind(fr.all_data_frames.player_id_df), "QB").local,
         weekly_roster_df |-> where_position(Bind(fr.all_data_frames.weekly_roster_df), "QB").local,
         weekly_stats_df  |-> where_position(Bind(fr.all_data_frames.weekly_stats_df), "QB").local,
         snap_count_df    |-> where_position(Bind(fr.all_data_frames.snap_count_df), "QB").local,
         sacks_df         |-> select_columns(
                                  where_position(Fresh(import_weekly_data(fr)), "QB").local,
                                  sacks_columns),
         ngs_passing_df   |-> select_columns(import_ngs_data(fr, "passing"),
                                             ngs_passing_columns)],
        AfterSelections(fr.all_data_frames, "QB"))

\* create_rushing_dfs(all_data_frames): the caller's tables are passed on
create_rushing_dfs(fr) ==
    StageReturn("create_rushing_dfs",
        [player_id_df     |-> fr.all_data_frames.player_id_df,
         weekly_roster_df |-> fr.all_data_frames.weekly_roster_df,
         weekly_stats_df  |-> fr.all_data_frames.weekly_stats_df,
         snap_count_df    |-> fr.all_data_frames.snap_count_df,
         ngs_rushing_df   |-> select_columns(import_ngs_data(fr, "rushing"),
                                             ngs_rushing_columns)],
        fr.all_data_frames)

\* create_receiving_dfs(all_data_frames): the feed of stat_type 'rushing' is
\* asked for the receiving columns, and the result is passed as ngs_rushing_df
create_receiving_dfs(fr) ==
    IF ~HasColumns(import_ngs_data(fr, "rushing"), ngs_receiving_columns)
    THEN StageRaise("create_receiving_dfs", "KeyError", fr.all_data_frames)
    ELSE StageReturn("create_receiving_dfs",
             [player_id_df     |-> fr.all_data_frames.player_id_df,
              weekly_roster_df |-> fr.all_data_frames.weekly_roster_df,
              weekly_stats_df  |-> fr.all_data_frames.weekly_stats_df,
              snap_count_df    |-> fr.all_data_frames.snap_count_df,
              ngs_rushing_df   |-> select_columns(import_ngs_data(fr, "rushing"),
                                                  ngs_receiving_columns)],
             fr.all_data_frames)

\* one row is given to one constructor
InitConstruct ==
    /\ kind \in Kinds
    /\ row \in Rows(kind)
    /\ current_year \in {SeasonMax, SeasonMax + 1}
    /\ frames = NoFrames

\* create_data_models() is called on the tables of a season
InitPipeline ==
    /\ kind = "create_data_models"
    /\ row = Empty
    /\ current_year = SeasonMax
    /\ frames \in PipelineFrames

\* the season the caller qualifies players on: "players who started last season"
qualify_on_season == current_year - 1

\* create_snap_counts_by_year_df(df) is called by a caller whose current
\* season is current_year
InitSnapCounts ==
    /\ kind = "create_snap_counts_by_year_df"
    /\ row = Empty
    /\ current_year \in {SeasonMax - 1, SeasonMax}
    /\ frames \in SnapFrames

\* create_all_dfs() is called; frames is the table import_weekly_rosters returns
InitAllDfs ==
    /\ kind = "create_all_dfs"
    /\ row = Empty
    /\ current_year = SeasonMax
    /\ frames \in RosterFrames

\* a stage is called on an AllDataFrames; frames holds the argument and the
\* tables nfl_data_py returns
InitStage ==
    /\ kind \in {"create_passing_dfs", "create_rushing_dfs", "create_receiving_dfs"}
    /\ row = Empty
    /\ current_year = SeasonMax
    /\ frames \in StageFrames

Init ==
    /\ pc = "raw"
    /\ \/ InitConstruct
       \/ InitStage
       \/ InitAllDfs
       \/ InitPipeline
       \/ InitSnapCounts
    /\ outcome = "none"
    /\ record = Empty
    /\ coerced = Empty
    /\ checked = Empty
    /\ error = [type |-> "none", fields |-> {}]
    /\ result = NoResult

\* the call returns res.record or raises res.error
Return(res) ==
    /\ outcome' = res.outcome
    /\ record' = res.record
    /\ coerced' = res.coerced
    /\ checked' = res.checked
    /\ error' = res.error

\* Player(...)
ConstructPlayer ==
    /\ pc = "raw"
    /\ kind = "Player"
    /\ Return(model_validate("Player", row))
    /\ pc' = "done"
    /\ UNCHANGED <<kind, row, current_year, frames, result>>

\* passing_metrics.PassingMetrics(...)
ConstructPassingMetrics ==
    /\ pc = "raw"
    /\ kind = "PassingMetrics"
    /\ Return(model_validate("PassingMetrics", row))
    /\ pc' = "done"
    /\ UNCHANGED <<kind, row, current_year, frames, result>>

\* passer_metrics.PassingMetrics(...)
ConstructPasserMetrics ==
    /\ pc = "raw"
    /\ kind = "PasserMetrics"
    /\ Return(model_validate("PasserMetrics", row))
    /\ pc' = "done"
    /\ UNCHANGED <<kind, row, current_year, frames, result>>

\* RushingMetrics(...)
ConstructRushingMetrics ==
    /\ pc = "raw"
    /\ kind = "RushingMetrics"
    /\ Return(model_validate("RushingMetrics", row))
    /\ pc' = "done"
    /\ UNCHANGED <<kind, row, current_year, frames, result>>

\* ReceivingMetrics(...)
ConstructReceivingMetrics ==
    /\ pc = "raw"
    /\ kind = "ReceivingMetrics"
    /\ Return(model_validate("ReceivingMetrics", row))
    /\ pc' = "done"
    /\ UNCHANGED <<kind, row, current_year, frames, result>>

\* the fields declared with Field(frozen=True)
Frozen(K) ==
    CASE K = "Player"           -> {"gsis_id"}
      [] K = "PassingMetrics"   -> {"gsis_id"}
      [] K = "PasserMetrics"    -> Range(PasserMetrics_fields)
      [] K = "RushingMetrics"   -> {"gsis_id"}
      [] K = "ReceivingMetrics" -> {"gsis_id"}

\* values a caller assigns to a field of an instance
AssignValues == {PyInt(-1), PyNone}

\* BaseModel.__setattr__(name, value) on an instance: a frozen field raises a
\* ValidationError (frozen_field); any other field is set to the value as it
\* is, since the classes do not ask for validate_assignment
setattr(K, instance, name, value) ==
    IF name \in Frozen(K)
    THEN [instance |-> instance,
          result |-> [op |-> "setattr", name |-> name, exc |-> "ValidationError"]]
    ELSE [instance |-> [instance EXCEPT ![name] = value],
          result |-> [op |-> "setattr", name |-> name, exc |-> "none"]]

\* instance.name = value, for an instance the constructor returned
Setattr ==
    /\ pc = "done"
    /\ outcome = "Accepted"
    /\ \E name \in (DOMAIN record) \ {"others"} : \E value \in AssignValues :
          /\ record' = setattr(kind, record, name, value).instance
          /\ result' = setattr(kind, record, name, value).result
    /\ pc' = "assigned"
    /\ UNCHANGED <<kind, row, current_year, outcome, coerced, checked, error, frames>>

\* reading a local variable of a function: UnboundLocalError unless an
\* assignment has bound it
LoadFast(name, bound) == IF name \in bound THEN "none" ELSE "UnboundLocalError"

\* the class methods Player defines
Player_classmethods == {"create_from_qb_df"}

\* one pass through the body of the for loop, lines 46-87: each
\* filter_qb_df_N = filter_qb_df_N[...] reads the local it assigns; the first
\* one is read before anything has bound it.  The exception the pass ends with.
LoopBody(bound) ==
    IF LoadFast("filter_qb_df_1", bound) # "none" THEN LoadFast("filter_qb_df_1", bound)
    ELSE IF LoadFast("filter_qb_df_2", bound) # "none" THEN LoadFast("filter_qb_df_2", bound)
    ELSE IF LoadFast("filter_qb_df_3", bound) # "none" THEN LoadFast("filter_qb_df_3", bound)
    ELSE IF LoadFast("filter_qb_df_4", bound) # "none" THEN LoadFast("filter_qb_df_4", bound)
    ELSE IF LoadFast("filter_qb_df_5", bound) # "none" THEN LoadFast("filter_qb_df_5", bound)
    ELSE IF LoadFast("filter_qb_df_6", bound) # "none" THEN LoadFast("filter_qb_df_6", bound)
    ELSE IF "create_from_qb_series" \notin Player_classmethods THEN "AttributeError"
    ELSE "none"

\* create_data_models(), lines 21-36: the tables are fetched, the ids listed, the
\* list of models is empty and no local of the loop is bound
create_data_models ==
    /\ pc = "raw"
    /\ kind = "create_data_models"
    /\ result' = [op |-> "create_data_models",
                  player_ids |-> [i \in DOMAIN frames.player_id_df |->
                                     frames.player_id_df[i].gsis_id],
                  next |-> 1,
                  bound |-> {},
                  qb_data_models |-> <<>>,
                  exc |-> "none"]
    /\ pc' = "loop"
    /\ UNCHANGED <<kind, row, current_year, outcome, record, coerced, checked, error, frames>>

\* the for loop takes the next player id, lines 40-87; an exception of the body
\* is not caught and ends the function
for_player_id ==
    /\ pc = "loop"
    /\ result.next <= Len(result.player_ids)
    /\ IF LoopBody(result.bound) = "none"
       THEN /\ result' = [result EXCEPT
                             !.next = @ + 1,
                             !.qb_data_models = Append(@, result.player_ids[result.next])]
            /\ pc' = "loop"
       ELSE /\ result' = [result EXCEPT !.exc = LoopBody(result.bound)]
            /\ pc' = "done"
    /\ UNCHANGED <<kind, row, current_year, outcome, record, coerced, checked, error, frames>>

\* the loop is exhausted and the function ends, line 90
end_create_data_models ==
    /\ pc = "loop"
    /\ result.next > Len(result.player_ids)
    /\ pc' = "done"
    /\ UNCHANGED <<kind, row, current_year, outcome, record, coerced, checked, error,
                   frames, result>>

\* create_snap_counts_by_year_df(df) returns or raises
Call_create_snap_counts_by_year_df ==
    /\ pc = "raw"
    /\ kind = "create_snap_counts_by_year_df"
    /\ result' = create_snap_counts_by_year_df(frames)
    /\ frames' = df_after_call(frames)
    /\ pc' = "done"
    /\ UNCHANGED <<kind, row, current_year, outcome, record, coerced, checked, error>>

\* create_all_dfs() builds its weekly roster table
Call_create_all_dfs ==
    /\ pc = "raw"
    /\ kind = "create_all_dfs"
    /\ result' = create_all_dfs(frames)
    /\ pc' = "done"
    /\ UNCHANGED <<kind, row, current_year, outcome, record, coerced, checked, error, frames>>

\* the stage returns or raises; the caller holds its tables as the call left them
StageCall(res) ==
    /\ result' = res
    /\ frames' = [frames EXCEPT !.all_data_frames = res.all_data_frames]
    /\ pc' = "done"
    /\ UNCHANGED <<kind, row, current_year, outcome, record, coerced, checked, error>>

Call_create_passing_dfs ==
    /\ pc = "raw"
    /\ kind = "create_passing_dfs"
    /\ StageCall(create_passing_dfs(frames))

Call_create_rushing_dfs ==
    /\ pc = "raw"
    /\ kind = "create_rushing_dfs"
    /\ StageCall(create_rushing_dfs(frames))

Call_create_receiving_dfs ==
    /\ pc = "raw"
    /\ kind = "create_receiving_dfs"
    /\ StageCall(create_receiving_dfs(frames))

Next ==
    \/ Call_create_all_dfs
    \/ Call_create_passing_dfs
    \/ Call_create_rushing_dfs
    \/ Call_create_receiving_dfs
    \/ Call_create_snap_counts_by_year_df
    \/ create_data_models
    \/ for_player_id
    \/ end_create_data_models
    \/ Setattr
    \/ ConstructPlayer
    \/ ConstructPassingMetrics
    \/ ConstructPasserMetrics
    \/ ConstructRushingMetrics
    \/ ConstructReceivingMetrics

Spec == Init /\ [][Next]_vars

----------------------------------------------------------------------------
(* Properties *)

\* a constructor has returned or raised
Done == pc = "done" /\ kind \in Kinds

Metrics == {"PassingMetrics", "PasserMetrics", "RushingMetrics", "ReceivingMetrics"}

\* the raw value is a number or a numeric string
IsNumber(v) == v.t \in {"int", "float"} \/ (v.t = "str" /\ ParseDecimal(v.s).st = "ok")

\* its value in thousandths
ValueOf(v) == IF v.t = "str" THEN ParseDecimal(v.s).val.n ELSE Milli(v)

\* the row is the base row of its class outside the fields S
BaseExcept(S) == \A f \in (DOMAIN row) \ S : row[f] = BaseRow(kind)[f]

IdKey == IF kind = "PasserMetrics" THEN "player_id" ELSE "gsis_id"

TeamKey == IF kind \in {"Player", "PasserMetrics"} THEN "team" ELSE "team_abbr"

CountFields ==
    {"attempts", "completions", "pass_touchdowns", "interceptions", "sacks",
     "sack_fumbles", "sack_fumbles_lost", "receptions", "targets", "rec_touchdowns",
     "rush_attempts", "rush_touchdowns", "offense_snaps"}

\* ReceivingMetrics row whose receptions and targets coerce to integers, targets > 0
C1_Case ==
    /\ Done /\ kind = "ReceivingMetrics"
    /\ {"receptions", "targets"} \subseteq DOMAIN checked
    /\ checked["receptions"].st = "ok" /\ checked["targets"].st = "ok"
    /\ checked["targets"].val.n > 0

\* |c - receptions / targets * 100| > 0.01 for c in thousandths
C1_Differs(c) ==
    Abs(c * checked["targets"].val.n - 100000 * checked["receptions"].val.n)
        > 10 * checked["targets"].val.n

C2_AvgRushYardsChecked ==
    (/\ Done /\ kind = "RushingMetrics"
     /\ BaseExcept({"rush_yards", "rush_attempts", "avg_rush_yards"})
     /\ row["rush_yards"].t = "int" /\ row["rush_attempts"].t = "int"
     /\ row["rush_attempts"].n > 0
     /\ row["avg_rush_yards"].t = "float")
    => IF Abs(row["avg_rush_yards"].n * row["rush_attempts"].n - 1000 * row["rush_yards"].n)
             <= 10 * row["rush_attempts"].n
       THEN outcome = "Accepted"
       ELSE outcome = "Rejected" /\ "avg_rush_yards" \in error.fields

\* C3: with a zero denominator (targets = 0, rush_attempts = 0) the cross-field
\* check is skipped: a row that passes every per-field check is Accepted whatever
\* its catch_percentage / avg_rush_yards is.
C3_ZeroDenominatorSkipped ==
    Done =>
        /\ (/\ kind = "ReceivingMetrics"
            /\ BaseExcept({"receptions", "targets", "catch_percentage"})
            /\ row["targets"] = PyInt(0)
            /\ row["receptions"].t = "int" /\ row["receptions"].n >= 0
            /\ row["catch_percentage"].t = "float"
            /\ row["catch_percentage"].n >= 0 /\ row["catch_percentage"].n <= 100000)
           => outcome = "Accepted"
        /\ (/\ kind = "RushingMetrics"
            /\ BaseExcept({"rush_yards", "rush_attempts", "avg_rush_yards"})
            /\ row["rush_attempts"] = PyInt(0)
            /\ row["rush_yards"].t = "int"
            /\ row["avg_rush_yards"].t = "float")
           => outcome = "Accepted"

\* the fields to_int is applied to
ToIntFields ==
    {"receptions", "targets", "rec_touchdowns",
     "rush_attempts", "rush_yards", "rush_touchdowns", "offense_snaps"}

\* an int, a float with zero fractional part, or a numeric string with one
Coercible(v) ==
    \/ v.t = "int"
    \/ v.t = "float" /\ v.n % 1000 = 0
    \/ v.t = "str" /\ ParseDecimal(v.s).st = "ok" /\ ParseDecimal(v.s).val.n % 1000 = 0

\* C4: to_int succeeds exactly when the value is an int, a float with zero
\* fractional part or a numeric string; every other value (3.7) fails and is not
\* truncated.
C4_ToIntExact ==
    Done => \A f \in ToIntFields \cap DOMAIN coerced :
                coerced[f].st = "ok" <=> Coercible(row[f])

\* the raw value is a negative number
IsNegative(v) == IsNumber(v) /\ ValueOf(v) < 0

C6_PositionValid ==
    Done =>
        /\ outcome = "Accepted" =>
              /\ "position" \in DOMAIN record
              /\ record["position"].s \in valid_positions
        /\ (row["position"].t # "str" \/ row["position"].s \notin valid_positions)
              => outcome = "Rejected"

\* C7: every Accepted record that carries a team abbreviation has one of the 32
\* teams, and a row whose team is another string of 2 or 3 characters is Rejected.
C7_TeamValid ==
    Done =>
        /\ (outcome = "Accepted" /\ TeamKey \in DOMAIN record)
              => record[TeamKey].s \in valid_teams
        /\ (/\ row[TeamKey].t = "str"
            /\ Len(row[TeamKey].s) \in {2, 3}
            /\ row[TeamKey].s \notin valid_teams)
              => outcome = "Rejected"

\* C8: the week check of every metrics class rejects a row exactly when week < 0.
C8_WeekCheck ==
    (Done /\ kind \in Metrics /\ "week" \in DOMAIN checked /\ row["week"].t = "int")
    => (checked["week"].st = "raise" <=> row["week"].n < 0)

\* a metrics row with an integer season, whose season field has been validated
C9_Case ==
    Done /\ kind \in Metrics /\ "season" \in DOMAIN checked /\ row["season"].t = "int"

\* C9: for the current season the caller holds, the season check of a metrics row
\* accepts exactly 1999 <= season <= current_year.
C9_SeasonFollowsCurrentYear ==
    C9_Case =>
        (checked["season"].st = "ok"
            <=> (row["season"].n >= 1999 /\ row["season"].n <= current_year))

\* C10: every Accepted record of every type has a player id of the form two
\* digits, hyphen, seven digits, and a row whose id has 10 characters of another
\* shape is Rejected.
C10_IdFormat ==
    Done =>
        /\ outcome = "Accepted" => MatchesHyphenPattern(record[IdKey].s)
        /\ (/\ row[IdKey].t = "str"
            /\ Len(row[IdKey].s) = 10
            /\ ~MatchesHyphenPattern(row[IdKey].s))
              => outcome = "Rejected"

\* C11: once a record is Accepted no later operation changes any of its fields:
\* every step from a state that holds an Accepted record leaves the record as it
\* was validated.
C11_RecordImmutable == [][outcome = "Accepted" => record' = record]_vars

\* create_data_models has ended, by its last line or by an exception
PipelineEnded == pc = "done" /\ kind = "create_data_models"

\* C12: a row that fails does not stop the run: when the run has ended every
\* input row has been processed and no exception has ended the run.
C12_RunProcessesEveryRow ==
    PipelineEnded =>
        /\ result.exc = "none"
        /\ result.next = Len(result.player_ids) + 1

\* the (player, week) pairs of a weekly table
Pairs(df) == {<<df[i].player_id, df[i].week>> : i \in DOMAIN df}

\* the table holds two rows for the same (player, week)
HasDuplicate(df, p) ==
    \E i, j \in DOMAIN df :
        i # j /\ df[i].player_id = p /\ df[j].player_id = p /\ df[i].week = df[j].week

\* C19: if a weekly table holds two rows for the same (player, week) of a listed
\* player, building that player's records fails with a duplicate-row error and no
\* record is produced for the player.
C19_DuplicateRowRefused ==
    PipelineEnded =>
        \A p \in Range(result.player_ids) :
            (HasDuplicate(frames.weekly_roster_df, p) \/ HasDuplicate(frames.weekly_stats_df, p))
            => /\ result.exc = "DuplicateRowError"
               /\ p \notin Range(result.qb_data_models)

\* C20: the records built are one per distinct (player, week) pair present in
\* both weekly tables: none for disjoint tables, as many as there are pairs for
\* tables with the same pairs.
C20_OneRowGroupPerPair ==
    PipelineEnded =>
        Len(result.qb_data_models)
            = Cardinality(Pairs(frames.weekly_roster_df) \cap Pairs(frames.weekly_stats_df))

\* create_snap_counts_by_year_df has returned or raised
SnapEnded == pc = "done" /\ kind = "create_snap_counts_by_year_df"

\* the weekly rows of player p in season s
RowsOf(p, s) == {i \in DOMAIN frames : frames[i].name = p /\ frames[i].season = s}

RECURSIVE SnapsOver(_)
SnapsOver(I) ==
    IF I = {} THEN 0
    ELSE frames[CHOOSE i \in I : TRUE].offense_snaps + SnapsOver(I \ {CHOOSE i \in I : TRUE})

\* offense_snaps of p summed over the weekly rows of season s
SnapTotal(p, s) == SnapsOver(RowsOf(p, s))

InputNames == {frames[i].name : i \in DOMAIN frames}

InputSeasons == {frames[i].season : i \in DOMAIN frames}

\* C13: the pivoted table has exactly one row per player of the input and one
\* column {season}_snaps per season of the input, and the value of player p in
\* season s is the sum of offense_snaps over the weekly rows of p in s (a player
\* without rows in s holds no value there).
C13_PivotSumsPerPlayerSeason ==
    SnapEnded =>
        /\ DOMAIN result.pivot.rows = InputNames
        /\ result.pivot.columns = {NameCol} \cup {SnapCol(s) : s \in InputSeasons}
        /\ \A p \in InputNames : \A s \in InputSeasons :
              result.pivot.rows[p][SnapCol(s)]
                  = IF RowsOf(p, s) = {} THEN PyNaN ELSE PyInt(SnapTotal(p, s))

\* a player with two weekly rows of 1 and 5 snaps in one season holds 6 there,
\* in a table of more than one season
C13_Witness ==
    /\ SnapEnded
    /\ Cardinality(InputSeasons) > 1
    /\ \E p \in InputNames : \E s \in InputSeasons :
          /\ Cardinality(RowsOf(p, s)) = 2
          /\ result.pivot.rows[p][SnapCol(s)] = PyInt(6)

\* C14: the aggregator drops exactly the players without a row for the caller's
\* qualify_on_season, and every remaining player holds 0 in every other season
\* without rows.
C14_DropOnQualifySeason ==
    SnapEnded =>
        /\ result.exc = "none"
        /\ DOMAIN result.remaining.rows = {p \in InputNames : RowsOf(p, qualify_on_season) # {}}
        /\ \A p \in DOMAIN result.remaining.rows : \A s \in InputSeasons :
              RowsOf(p, s) = {} => result.remaining.rows[p][SnapCol(s)] = PyInt(0)

\* C15: the threshold is the linear-interpolation 0.66 quantile of the
\* qualify_on_season column over the players that remain after the drop, also
\* when the input holds a later season (here for a caller qualifying on 2024).
C15_ThresholdOfQualifySeason ==
    (SnapEnded /\ result.exc = "none" /\ qualify_on_season = 2024)
    => result.threshold
         = quantile_66(SortedValues(result.remaining, SnapCol(qualify_on_season)))

\* C16: a remaining player is in the result exactly when the player's snap count
\* of at least one season, any season, is strictly greater than the one threshold.
C16_AnySeasonAboveThreshold ==
    (SnapEnded /\ result.exc = "none") =>
        \A p \in DOMAIN result.remaining.rows :
            p \in result.qualifying_players
                <=> /\ ~result.threshold.nan
                    /\ \E s \in InputSeasons : 100 * SnapTotal(p, s) > result.threshold.t100

\* of two remaining players one is in the result through a season other than
\* 2024, with a 2024 count not above the threshold, and the other is not
C16_Witness ==
    /\ SnapEnded /\ result.exc = "none"
    /\ \E p \in result.qualifying_players :
          100 * SnapTotal(p, 2024) <= result.threshold.t100
    /\ \E p \in DOMAIN result.remaining.rows : p \notin result.qualifying_players

\* C17: when the pivoted table has no season column the aggregator fails with
\* the error of its own 'no snap count columns' check and with no other error.
C17_EmptyAggregateError ==
    (SnapEnded /\ snap_cols(result.pivot) = {}) => result.exc = "ValueError"

\* create_all_dfs has returned or raised
AllDfsEnded == pc = "done" /\ kind = "create_all_dfs"

\* the input rows with status 'ACT' and a position among QB, RB, WR, TE
Matching ==
    {i \in DOMAIN frames :
        frames[i].status = "ACT" /\ frames[i].position \in {"QB", "RB", "WR", "TE"}}

\* the k-th matching input row
KthMatching(k) == CHOOSE i \in Matching : Cardinality({j \in Matching : j <= i}) = k

\* C18: the weekly roster table of create_all_dfs holds exactly the input rows
\* with status 'ACT' and position in {QB, RB, WR, TE}, in their input order, each
\* with exactly the requested columns; with no matching row it is the empty
\* table, and there is no error.
C18_RosterSelection ==
    AllDfsEnded =>
        /\ result.exc = "none"
        /\ Len(result.weekly_roster_df) = Cardinality(Matching)
        /\ \A k \in 1..Len(result.weekly_roster_df) :
              /\ DOMAIN result.weekly_roster_df[k]
                    = {"player_id", "position", "season", "week", "status", "years_exp"}
              /\ \A c \in DOMAIN result.weekly_roster_df[k] :
                    result.weekly_roster_df[k][c] = frames[KthMatching(k)][c]

\* of two input rows the first is not active and the second row is the table
C18_Witness ==
    /\ AllDfsEnded
    /\ Len(frames) = 2
    /\ frames[1].status = "RES"
    /\ Matching = {2}
    /\ Len(result.weekly_roster_df) = 1
    /\ result.weekly_roster_df[1].player_id = frames[2].player_id

\* create_passing_dfs has returned or raised
PassingEnded == pc = "done" /\ kind = "create_passing_dfs"

\* the source table of table t of the passing set
PassingSource(t) ==
    CASE t = "sacks_df"       -> frames.weekly_data
      [] t = "ngs_passing_df" -> frames.ngs.passing
      [] OTHER                -> frames.all_data_frames[t]

\* the position of the player of a source row
RowPosition(r) == IF "position" \in DOMAIN r THEN r.position ELSE r.player_position

\* r, a row of table t of the passing set, is a row of a QB in the source of t
IsRowOfQB(t, r) ==
    \E i \in DOMAIN PassingSource(t).rows :
        /\ RowPosition(PassingSource(t).rows[i]) = "QB"
        /\ \A c \in DOMAIN r : PassingSource(t).rows[i][c] = r[c]

\* C21: every table of the set create_passing_dfs returns (identity, weekly
\* roster, weekly stats, snap counts, sacks, next-gen passing) holds only rows
\* of QB players, whatever the source tables hold.
C21_OnlyQuarterbackRows ==
    PassingEnded =>
        \A t \in DOMAIN result.tables : \A k \in DOMAIN result.tables[t].rows :
            IsRowOfQB(t, result.tables[t].rows[k])

\* create_receiving_dfs has returned or raised
ReceivingEnded == pc = "done" /\ kind = "create_receiving_dfs"

\* C22: create_receiving_dfs completes for any source-table contents, and the
\* table set it returns holds, in its field ngs_receiving_df, the receiving
\* columns of the rows of the 'receiving' next-gen feed.
C22_ReceivingFeedReturned ==
    ReceivingEnded =>
        /\ result.exc = "none"
        /\ "ngs_receiving_df" \in DOMAIN result.tables
        /\ result.tables.ngs_receiving_df
               = select_columns(import_ngs_data(frames, "receiving"), ngs_receiving_columns)

\* the field whose validator holds the cross-field check of class K
CrossField(K) == IF K = "ReceivingMetrics" THEN "catch_percentage" ELSE "avg_rush_yards"

\* the other fields the check reads
CrossReads(K) ==
    IF K = "ReceivingMetrics" THEN {"receptions", "targets"}
    ELSE {"rush_yards", "rush_attempts"}

\* the validator holding the cross-field check of the class has been called
CrossCheckCalled ==
    /\ Done /\ kind \in {"ReceivingMetrics", "RushingMetrics"}
    /\ CrossField(kind) \in DOMAIN coerced

\* C23: in the construction of a ReceivingMetrics or RushingMetrics record the
\* cross-field check is evaluated only when every field it reads has been coerced
\* to its numeric type: the fields it reads from the validated data have passed
\* their conversion, and the value it is given for catch_percentage / avg_rush_yards is a number,
\* never a raw value such as a numeric string.
C23_CheckAfterCoercion ==
    CrossCheckCalled =>
        /\ \A f \in CrossReads(kind) :
              row[f] # Missing => f \in DOMAIN coerced /\ coerced[f].st = "ok"
        /\ row[CrossField(kind)].t \in {"int", "float", "nan"}

\* the functions that derive tables from the tables of their caller
Stages ==
    {"create_snap_counts_by_year_df", "create_passing_dfs", "create_rushing_dfs",
     "create_receiving_dfs"}

\* C24: no stage modifies its input: over the call of create_snap_counts_by_year_df
\* the caller's table df keeps its rows, columns and values, and over the call of
\* create_passing_dfs, create_rushing_dfs or create_receiving_dfs so do the tables
\* of the AllDataFrames argument.
C24_InputsUnchanged ==
    [][(pc = "raw" /\ kind \in Stages) => frames' = frames]_vars

\* create_passing_dfs has returned an identity table without the WR row that
\* the caller's identity table holds
C24_Witness ==
    /\ PassingEnded
    /\ \E i \in DOMAIN frames.all_data_frames.player_id_df.rows :
          frames.all_data_frames.player_id_df.rows[i].position = "WR"
    /\ Len(result.tables.player_id_df.rows) < Len(frames.all_data_frames.player_id_df.rows)

MostRecentSeason == CHOOSE s \in InputSeasons : \A t \in InputSeasons : t <= s

\* the remaining players
Remaining == DOMAIN result.remaining.rows

\* the snap count of remaining player p in season s
SnapCount(p, s) == result.remaining.rows[p][SnapCol(s)].n

\* all remaining players have the same count in the most recent season, and
\* none has a larger count in another season
EvenPopulation ==
    /\ \A p, q \in Remaining :
          SnapCount(p, MostRecentSeason) = SnapCount(q, MostRecentSeason)
    /\ \A p \in Remaining : \A s \in InputSeasons :
          SnapCount(p, s) <= SnapCount(p, MostRecentSeason)

\* C26: the result of the aggregator is empty whenever all remaining players
\* have the same snap count in the most recent season and no remaining player
\* has a larger count in any other season; a single remaining player is in
\* the result only if one of that player's earlier seasons exceeds the most
\* recent one.
C26_EvenPopulationQualifiesNobody ==
    (SnapEnded /\ result.exc = "none") =>
        /\ EvenPopulation => result.qualifying_players = {}
        /\ \A p \in result.qualifying_players :
              Remaining = {p} =>
                  \E s \in InputSeasons \ {MostRecentSeason} :
                      SnapCount(p, s) > SnapCount(p, MostRecentSeason)

\* two players remain with the same count in the most recent season, which
\* holds snaps, and the result is empty
C26_Witness ==
    /\ SnapEnded /\ result.exc = "none"
    /\ Cardinality(Remaining) = 2
    /\ EvenPopulation
    /\ \A p \in Remaining : SnapCount(p, MostRecentSeason) > 0
    /\ result.qualifying_players = {}

====
